---- MODULE Spec2Model ----
(***************************************************************************)
(* A model of matlab/+caffe/private/caffe_.cpp: the handle registry        *)
(* (init_key, handle_to_ptr, setup_handle), the object store (solvers_,    *)
(* nets_), the multi-GPU replica commands (get_solver_multigpu,            *)
(* blob_set_data_multigpu, blob_get_data_byname_multigpu) and reset.       *)
(* One action is one mex command, run to completion.                       *)
(***************************************************************************)
EXTENDS Integers, Sequences, FiniteSets, TLC

\* ---------------------------------------------------------------- bounds
\* caffe_rng_rand() returns one of 2^32 values; the model draws from NumKeys.
NumKeys == 2
\* Number of heap slots an object of the store can be allocated at.
MaxAddr == 2
\* Number of reset commands in a run.
MaxResets == 1
\* Number of handles the host holds.
MaxHandles == 4
\* cudaGetDeviceCount().
DeviceCount == 2
\* Longest device list passed to get_solver_multigpu.
MaxGpus == 2

VARIABLES
  init_key,   \* static double init_key
  solvers_,   \* static vector<shared_ptr<Solver> > solvers_
  nets_,      \* static vector<shared_ptr<Net> > nets_
  sync_ptr,   \* caffe::P2PSync<float>* sync_ptr
  leaked,     \* P2PSync objects overwritten in sync_ptr and never deleted
  heap,       \* native objects by address
  mode,       \* Caffe::mode()
  device,     \* the active CUDA device
  handles,    \* handle structs the host holds
  epoch,      \* history: number of resets so far
  last,       \* history: the last command, its inputs and its outcome
  pc          \* the position inside a command modelled in several steps

vars == <<init_key, solvers_, nets_, sync_ptr, leaked, heap, mode, device,
          handles, epoch, last, pc>>

\* The null P2PSync pointer, the null object pointer and a free heap slot.
NULL == [null |-> TRUE, solver |-> 0, syncs |-> <<>>]
NullPtr == [base |-> 0, part |-> "null", idx |-> 0]
NoObj == [kind |-> "free", born |-> 0, blobs |-> <<>>]

KeySpace == 0..(NumKeys - 1)
Addr == 1..MaxAddr
Devices == 0..(DeviceCount - 1)

\* ----------------------------------------------------------- tensors
\* Every net of the model is built from the same definition: two blobs, the
\* first of native shape (1,2), the second zero-dimensional.
BlobNames == <<"data", "prob">>
NumBlobs == Len(BlobNames)
BlobShape(j) == IF j = 1 THEN <<1, 2>> ELSE <<>>

RECURSIVE Prod(_)
Prod(s) == IF s = <<>> THEN 1 ELSE Head(s) * Prod(Tail(s))

\* Blob::count()
count(blob) == Prod(blob.shape)

Zeros(n) == [i \in 1..n |-> 0]

NewBlob(j) == [shape |-> BlobShape(j),
               data |-> Zeros(Prod(BlobShape(j))),
               diff |-> Zeros(Prod(BlobShape(j)))]

NewBlobs == [j \in 1..NumBlobs |-> NewBlob(j)]

Reverse(s) == [i \in 1..Len(s) |-> s[Len(s) + 1 - i]]

\* mxGetNumberOfElements
mxGetNumberOfElements(mx_mat) == Prod(mx_mat.dims)

\* mxIsSingle
mxIsSingle(mx_mat) == mx_mat.class = "single"

\* mxCreateNumericArray(ndim, dims, mxSINGLE_CLASS, mxREAL): an array of
\* zeros; MATLAB gives every array at least two dimensions, and ndim = 0
\* makes the empty 0-by-0 array.
mxCreateNumericArray(dims) ==
  LET d == IF Len(dims) = 0 THEN <<0, 0>>
           ELSE IF Len(dims) = 1 THEN <<dims[1], 1>>
           ELSE dims
  IN [class |-> "single", dims |-> d, data |-> Zeros(Prod(d))]

\* caffe_copy(n, src, dst): the first n elements of dst become those of src.
caffe_copy(n, src, dst) ==
  [i \in 1..Len(dst) |-> IF i <= n THEN src[i] ELSE dst[i]]

\* mx_mat_to_blob with a check that rejects only an array of too few
\* elements.
mx_mat_to_blob_at_least(mx_mat, blob, which) ==
  IF count(blob) > mxGetNumberOfElements(mx_mat)
  THEN [err |-> "SizeMismatchError", blob |-> blob]
  ELSE IF mode \notin {"CPU", "GPU"}
  THEN [err |-> "NativeEngineError", blob |-> blob]
  ELSE IF which = "DATA"
  THEN [err |-> "none",
        blob |-> [blob EXCEPT !.data = caffe_copy(count(blob), mx_mat.data, @)]]
  ELSE [err |-> "none",
        blob |-> [blob EXCEPT !.diff = caffe_copy(count(blob), mx_mat.data, @)]]

\* mx_mat_to_blob: [err, blob] after copying the host array into the plane
\* which (DATA or DIFF) of blob. Both Caffe modes address the same logical
\* plane (the CPU and the GPU pointer of one SyncedMemory).
mx_mat_to_blob(mx_mat, blob, which) ==
  IF count(blob) # mxGetNumberOfElements(mx_mat)
  THEN [err |-> "SizeMismatchError", blob |-> blob]
  ELSE IF mode \notin {"CPU", "GPU"}
  THEN [err |-> "NativeEngineError", blob |-> blob]
  ELSE IF which = "DATA"
  THEN [err |-> "none",
        blob |-> [blob EXCEPT !.data = caffe_copy(count(blob), mx_mat.data, @)]]
  ELSE [err |-> "none",
        blob |-> [blob EXCEPT !.diff = caffe_copy(count(blob), mx_mat.data, @)]]

\* The dimensions without the case of a blob of no axes.
mat_dims_reversed(blob) == Reverse(blob.shape)

\* blob_to_mx_mat, the dimensions of the host array: dims[mat_axis] =
\* blob->shape(blob_axis) with the axes reversed, and one dimension of
\* extent 1 for a blob of no axes (dims.push_back(1)).
mat_dims(blob) ==
  LET num_axes == Len(blob.shape) IN
  IF num_axes = 0 THEN <<1>> ELSE Reverse(blob.shape)

\* blob_to_mx_mat reading the DATA plane whatever plane is asked for.
blob_to_mx_mat_data(blob, which) ==
  LET mx_mat == mxCreateNumericArray(mat_dims(blob))
  IN [mx_mat EXCEPT !.data = caffe_copy(count(blob), blob.data, @)]

\* blob_to_mx_mat: a fresh host array of the dimensions mat_dims holding the
\* plane which of the blob.
blob_to_mx_mat(blob, which) ==
  LET mx_mat == mxCreateNumericArray(mat_dims(blob))
  IN [mx_mat EXCEPT !.data =
        caffe_copy(count(blob),
                   IF which = "DATA" THEN blob.data ELSE blob.diff, @)]

\* ----------------------------------------------------------- handles
\* A pointer: the address of a stored object (base) and which object of it
\* (the solver, its net, the net's layer, one of the net's blobs).
Ptr(base, part, idx) == [base |-> base, part |-> part, idx |-> idx]

\* setup_handle: the handle struct {ptr, init_key}. T (the template type
\* the handle was issued under), issued (the epoch of issue) and obj (the
\* epoch the object pointed to was constructed in, which with its address
\* identifies it) are history fields: the struct does not hold them and
\* handle_to_ptr cannot read them.
setup_handle(ptr, T, obj) ==
  [ptr |-> ptr, ptr_class |-> "uint64", init_key |-> init_key,
   T |-> T, issued |-> epoch, obj |-> obj]

\* A handle that holds the null pointer whatever object it is made for.
ptr_to_handle_null(ptr, T, obj) == setup_handle(NullPtr, T, obj)

\* ptr_to_handle
ptr_to_handle(ptr, T, obj) == setup_handle(ptr, T, obj)

\* ptr_vec_to_handle_vec
ptr_vec_to_handle_vec(ptr_vec, T, obj) ==
  [i \in 1..Len(ptr_vec) |-> setup_handle(ptr_vec[i], T, obj)]

\* handle_to_ptr with the test of the key inverted.
handle_to_ptr_inverted(T, mx_handle) ==
  IF mx_handle.ptr_class # "uint64"
  THEN [err |-> "UsageError", ptr |-> NullPtr]
  ELSE IF mx_handle.init_key = init_key
  THEN [err |-> "StaleHandleError", ptr |-> NullPtr]
  ELSE [err |-> "none", ptr |-> mx_handle.ptr]

\* handle_to_ptr<T>: [err, ptr]. The expected type T takes no part in the
\* checks: the pointer is reinterpret_cast to T*.
handle_to_ptr(T, mx_handle) ==
  IF mx_handle.ptr_class # "uint64"
  THEN [err |-> "UsageError", ptr |-> NullPtr]
  ELSE IF mx_handle.init_key # init_key
  THEN [err |-> "StaleHandleError", ptr |-> NullPtr]
  ELSE [err |-> "none", ptr |-> mx_handle.ptr]

\* Whether a T* with this value points to a live object of type T.
PointsTo(T, ptr) ==
  /\ heap[ptr.base] # NoObj
  /\ ptr.part = T
  /\ (ptr.part = "Solver" => heap[ptr.base].kind = "Solver")
  /\ (ptr.part = "Blob" => ptr.idx \in 1..NumBlobs)

Range(s) == {s[i] : i \in 1..Len(s)}

\* ------------------------------------------------------------- state
Running == last.err # "Crash" /\ pc = "idle"

\* The record of a command: its name, what it read of its inputs, its error
\* (or "none") and the values returned to the host.
Outcome(cmd, arg, err, out) ==
  [cmd |-> cmd, arg |-> arg, err |-> err, out |-> out]

\* A failed check inside the engine (glog CHECK, LOG(FATAL)): reported to
\* the host as an error when glog_failure_handler is installed (init_log was
\* called), the end of the process otherwise.
EngineFailure == {"NativeEngineError", "Crash"}

NoArg == <<>>
NoOut == <<>>

FreeAddr == {a \in Addr : heap[a] = NoObj}

\* A solver (with its net) and a stand-alone net as first constructed; born
\* is a history field, the epoch of construction.
NewSolver == [kind |-> "Solver", born |-> epoch, blobs |-> NewBlobs]

NewNet == [kind |-> "Net", born |-> epoch, blobs |-> NewBlobs]

Init ==
  /\ init_key \in KeySpace
  /\ solvers_ = <<>>
  /\ nets_ = <<>>
  /\ sync_ptr = NULL
  /\ leaked = {}
  /\ heap = [a \in Addr |-> NoObj]
  /\ mode = "CPU"
  /\ device = 0
  /\ handles = {}
  /\ epoch = 0
  /\ last = [cmd |-> "init", arg |-> NoArg, err |-> "none", out |-> NoOut]
  /\ pc = "idle"

\* ------------------------------------------------- object store commands
\* An entry put in front of the entries a collection holds.
push_front(vec, x) == <<x>> \o vec

\* vector::push_back: the entry goes behind the entries the collection holds.
push_back(vec, x) == Append(vec, x)

\* caffe_('get_solver', solver_file)
get_solver ==
  /\ Running
  /\ \E file_ok \in BOOLEAN, created \in BOOLEAN :
       IF ~file_ok
       THEN /\ last' = Outcome("get_solver", NoArg, "MissingFileError", NoOut)
            /\ UNCHANGED <<heap, solvers_, handles>>
       ELSE IF ~created
       THEN /\ \E e \in EngineFailure :
                 last' = Outcome("get_solver", NoArg, e, NoOut)
            /\ UNCHANGED <<heap, solvers_, handles>>
       ELSE \E a \in FreeAddr :
              LET h == ptr_to_handle(Ptr(a, "Solver", 0), "Solver", epoch) IN
              /\ Cardinality(handles \cup {h}) <= MaxHandles
              /\ heap' = [heap EXCEPT ![a] = NewSolver]
              /\ solvers_' = push_back(solvers_, a)
              /\ handles' = handles \cup {h}
              /\ last' = Outcome("get_solver", NoArg, "none", <<h>>)
  /\ UNCHANGED <<pc, init_key, nets_, sync_ptr, leaked, mode, device, epoch>>

\* caffe_('get_net', model_file, phase_name)
get_net ==
  /\ Running
  /\ \E file_ok \in BOOLEAN, phase_name \in {"train", "test", "other"} :
       IF ~file_ok
       THEN /\ last' = Outcome("get_net", NoArg, "MissingFileError", NoOut)
            /\ UNCHANGED <<heap, nets_, handles>>
       ELSE IF phase_name \notin {"train", "test"}
       THEN /\ last' = Outcome("get_net", NoArg, "UsageError", NoOut)
            /\ UNCHANGED <<heap, nets_, handles>>
       ELSE \E a \in FreeAddr :
              LET h == ptr_to_handle(Ptr(a, "Net", 0), "Net", epoch) IN
              /\ Cardinality(handles \cup {h}) <= MaxHandles
              /\ heap' = [heap EXCEPT ![a] = NewNet]
              /\ nets_' = push_back(nets_, a)
              /\ handles' = handles \cup {h}
              /\ last' = Outcome("get_net", NoArg, "none", <<h>>)
  /\ UNCHANGED <<pc, init_key, solvers_, sync_ptr, leaked, mode, device, epoch>>

\* The handle structs the host can pass to a command: those it was given,
\* and, a handle being a plain struct of a ptr and an init_key field, any of
\* them with the key replaced by one the host has just read with
\* get_init_key.
HostHandles ==
  handles \cup
    (IF last.cmd = "get_init_key" /\ last.err = "none"
     THEN {[h EXCEPT !.init_key = last.out[1]] : h \in handles}
     ELSE {})

\* ------------------------------------------------- handle commands
\* A command that resolves its first argument with handle_to_ptr<T> and
\* then uses the object. issued are the handles it returns and out its
\* outputs when the pointer resolved points to a live T (they are read in
\* that case only). Using a pointer that does not point to a live T is
\* undefined: the process dies or the command returns garbage.
HandleCommand(cmd, T, h, issued, out) ==
  LET r == handle_to_ptr(T, h)
      arg == [h |-> h, T |-> T, ptr |-> r.ptr]
  IN
  IF r.err # "none"
  THEN /\ last' = Outcome(cmd, arg, r.err, NoOut)
       /\ UNCHANGED handles
  ELSE IF ~PointsTo(T, r.ptr)
  THEN /\ \E ub \in {"Crash", "garbage"} :
            last' = IF ub = "Crash" THEN Outcome(cmd, arg, "Crash", NoOut)
                    ELSE Outcome(cmd, arg, "none", <<"garbage">>)
       /\ UNCHANGED handles
  ELSE /\ Cardinality(handles \cup Range(issued)) <= MaxHandles
       /\ handles' = handles \cup Range(issued)
       /\ last' = Outcome(cmd, arg, "none", out)

HandleFrame ==
  UNCHANGED <<pc, init_key, solvers_, nets_, sync_ptr, leaked, heap, mode, device,
              epoch>>

\* caffe_('solver_get_attr', hSolver): handles of solver->net() and of
\* solver->test_nets() (none in the model's solver definition).
solver_get_attr ==
  /\ Running
  /\ \E h \in HostHandles :
       LET ptr == handle_to_ptr("Solver", h).ptr
           issued == <<ptr_to_handle(Ptr(ptr.base, "Net", 0), "Net",
                                     heap[ptr.base].born)>>
       IN HandleCommand("solver_get_attr", "Solver", h, issued, issued)
  /\ HandleFrame

\* caffe_('net_get_attr', hNet): handles of net->layers() and net->blobs().
net_get_attr ==
  /\ Running
  /\ \E h \in HostHandles :
       LET ptr == handle_to_ptr("Net", h).ptr
           issued ==
             ptr_vec_to_handle_vec(<<Ptr(ptr.base, "Layer", 0)>>, "Layer",
                                   heap[ptr.base].born)
             \o ptr_vec_to_handle_vec(
                  [j \in 1..NumBlobs |-> Ptr(ptr.base, "Blob", j)], "Blob",
                  heap[ptr.base].born)
       IN HandleCommand("net_get_attr", "Net", h, issued, issued)
  /\ HandleFrame

\* caffe_('layer_get_type', hLayer)
layer_get_type ==
  /\ Running
  /\ \E h \in HostHandles :
       HandleCommand("layer_get_type", "Layer", h, <<>>, <<"Layer">>)
  /\ HandleFrame

\* caffe_('blob_get_shape', hBlob): the shape with the axes reversed.
blob_get_shape ==
  /\ Running
  /\ \E h \in HostHandles :
       LET ptr == handle_to_ptr("Blob", h).ptr
           out == <<Reverse(heap[ptr.base].blobs[ptr.idx].shape)>>
       IN HandleCommand("blob_get_shape", "Blob", h, <<>>, out)
  /\ HandleFrame

\* ------------------------------------------------- blob data commands
\* The host arrays of the model: two single arrays of two elements (a
\* column and a row), a single scalar, and a double array of two elements.
HostArrays ==
  { [class |-> "single", dims |-> <<2, 1>>, data |-> <<1, 0>>],
    [class |-> "single", dims |-> <<1, 2>>, data |-> <<0, 1>>],
    [class |-> "single", dims |-> <<1, 1>>, data |-> <<1>>],
    [class |-> "double", dims |-> <<2, 1>>, data |-> <<1, 1>>] }

BlobFrame ==
  UNCHANGED <<pc, init_key, solvers_, nets_, sync_ptr, leaked, mode, device,
              handles, epoch>>

\* blob_get_data and blob_get_diff: handle_to_ptr<Blob>, then blob_to_mx_mat
\* of the plane which.
BlobGet(cmd, which) ==
  /\ BlobFrame
  /\ UNCHANGED heap
  /\ \E h \in HostHandles :
     LET r == handle_to_ptr("Blob", h)
         arg == [h |-> h, T |-> "Blob", ptr |-> r.ptr, which |-> which]
     IN
     IF r.err # "none" THEN last' = Outcome(cmd, arg, r.err, NoOut)
     ELSE IF ~PointsTo("Blob", r.ptr)
     THEN \E ub \in {"Crash", "garbage"} :
            last' = IF ub = "Crash" THEN Outcome(cmd, arg, "Crash", NoOut)
                    ELSE Outcome(cmd, arg, "none", <<"garbage">>)
     ELSE last' = Outcome(cmd, arg, "none",
                    <<blob_to_mx_mat(heap[r.ptr.base].blobs[r.ptr.idx],
                                     which)>>)

\* blob_set_data and blob_set_diff: the usage check on the array's class,
\* handle_to_ptr<Blob>, then mx_mat_to_blob into the plane which.
BlobSet(cmd, which) ==
  /\ BlobFrame
  /\ \E h \in HostHandles, mx_mat \in HostArrays :
     LET r == handle_to_ptr("Blob", h)
         arg == [h |-> h, T |-> "Blob", ptr |-> r.ptr, which |-> which,
                 mx_mat |-> mx_mat]
         Stop(err) == /\ last' = Outcome(cmd, arg, err, NoOut)
                      /\ UNCHANGED heap
     IN
     IF ~mxIsSingle(mx_mat) THEN Stop("UsageError")
     ELSE IF r.err # "none" THEN Stop(r.err)
     ELSE IF ~PointsTo("Blob", r.ptr)
     THEN \E ub \in {"Crash", "none"} : Stop(ub)
     ELSE
     LET w == mx_mat_to_blob(mx_mat, heap[r.ptr.base].blobs[r.ptr.idx], which)
     IN
     /\ heap' = [heap EXCEPT ![r.ptr.base].blobs[r.ptr.idx] = w.blob]
     /\ last' = Outcome(cmd, arg, w.err, NoOut)

\* caffe_('blob_get_data', hBlob)
blob_get_data ==
  /\ Running
  /\ BlobGet("blob_get_data", "DATA")

\* caffe_('blob_set_data', hBlob, new_data)
blob_set_data ==
  /\ Running
  /\ BlobSet("blob_set_data", "DATA")

\* caffe_('blob_get_diff', hBlob)
blob_get_diff ==
  /\ Running
  /\ BlobGet("blob_get_diff", "DIFF")

\* caffe_('blob_set_diff', hBlob, new_diff)
blob_set_diff ==
  /\ Running
  /\ BlobSet("blob_set_diff", "DIFF")

\* ------------------------------------------------- mode, device, reset
\* caffe_('set_mode_cpu')
set_mode_cpu ==
  /\ Running
  /\ mode' = "CPU"
  /\ last' = Outcome("set_mode_cpu", NoArg, "none", NoOut)
  /\ UNCHANGED <<pc, init_key, solvers_, nets_, sync_ptr, leaked, heap, device,
                 handles, epoch>>

\* caffe_('set_mode_gpu')
set_mode_gpu ==
  /\ Running
  /\ mode' = "GPU"
  /\ last' = Outcome("set_mode_gpu", NoArg, "none", NoOut)
  /\ UNCHANGED <<pc, init_key, solvers_, nets_, sync_ptr, leaked, heap, device,
                 handles, epoch>>

\* caffe_('set_device', device_id); a device that does not exist fails the
\* CUDA call inside Caffe::SetDevice.
set_device ==
  /\ Running
  /\ \E device_id \in (-1)..DeviceCount :
       IF device_id \in Devices
       THEN /\ device' = device_id
            /\ last' = Outcome("set_device", device_id, "none", NoOut)
       ELSE /\ device' = device
            /\ \E e \in EngineFailure :
                 last' = Outcome("set_device", device_id, e, NoOut)
  /\ UNCHANGED <<pc, init_key, solvers_, nets_, sync_ptr, leaked, heap, mode,
                 handles, epoch>>

\* caffe_rng_rand(): any value of the generator's range.
caffe_rng_rand == KeySpace

\* The objects that stay allocated when the store is cleared: a P2PSync
\* that was never deleted keeps its shared_ptr to its root solver.
KeptAlive == leaked

\* reset clearing the two collections only: sync_ptr is neither deleted nor
\* set to NULL.
reset_store_only ==
  /\ Running
  /\ epoch < MaxResets
  /\ solvers_' = <<>>
  /\ nets_' = <<>>
  /\ heap' = [a \in Addr |->
               IF a \in KeptAlive \/ (sync_ptr # NULL /\ a = sync_ptr.solver)
               THEN heap[a] ELSE NoObj]
  /\ init_key' \in caffe_rng_rand
  /\ epoch' = epoch + 1
  /\ last' = Outcome("reset", NoArg, "none", NoOut)
  /\ UNCHANGED <<pc, sync_ptr, leaked, mode, device, handles>>

\* caffe_('reset')
reset ==
  /\ Running
  /\ epoch < MaxResets
  /\ solvers_' = <<>>
  /\ nets_' = <<>>
  /\ sync_ptr' = NULL
  /\ heap' = [a \in Addr |-> IF a \in KeptAlive THEN heap[a] ELSE NoObj]
  /\ init_key' \in caffe_rng_rand
  /\ epoch' = epoch + 1
  /\ last' = Outcome("reset", NoArg, "none", NoOut)
  /\ UNCHANGED <<pc, leaked, mode, device, handles>>

\* The objects a P2PSync holds a shared_ptr to: its root solver.
HeldBy(sync) == IF sync = NULL THEN {} ELSE {sync.solver}

\* reset, lines 717-722: the store's collections are cleared. An object
\* is released with its last shared_ptr: the root solver of the current
\* replica set is still held by *sync_ptr.
reset_clear ==
  /\ Running
  /\ epoch < MaxResets
  /\ solvers_' = <<>>
  /\ nets_' = <<>>
  /\ heap' = [a \in Addr |->
               IF a \in KeptAlive \cup HeldBy(sync_ptr) THEN heap[a]
               ELSE NoObj]
  /\ pc' = "reset_delete"
  /\ UNCHANGED <<init_key, sync_ptr, leaked, mode, device, handles, epoch,
                 last>>

\* reset, lines 723-725: delete(sync_ptr), sync_ptr = NULL, the new key.
reset_delete ==
  /\ pc = "reset_delete"
  /\ sync_ptr' = NULL
  /\ heap' = [a \in Addr |-> IF a \in KeptAlive THEN heap[a] ELSE NoObj]
  /\ init_key' \in caffe_rng_rand
  /\ epoch' = epoch + 1
  /\ last' = Outcome("reset", NoArg, "none", NoOut)
  /\ pc' = "idle"
  /\ UNCHANGED <<solvers_, nets_, leaked, mode, device, handles>>

\* caffe_('get_init_key'): the current key, returned to the host.
get_init_key ==
  /\ Running
  /\ last' = Outcome("get_init_key", NoArg, "none", <<init_key>>)
  /\ UNCHANGED <<pc, init_key, solvers_, nets_, sync_ptr, leaked, heap, mode,
                 device, handles, epoch>>

\* ------------------------------------------------- replica set (P2PSync)
\* Sequences over S of length lo..hi.
SeqsOf(S, lo, hi) == UNION {[1..n -> S] : n \in lo..hi}

\* The device lists a host can pass: identifiers below, inside and above
\* the range of available devices.
DeviceIds == (-1)..DeviceCount
DeviceLists == SeqsOf(DeviceIds, 0, MaxGpus)

\* new P2PSync(solver, NULL, param): the root of a replica tree, no peers yet.
P2PSync(solver) == [null |-> FALSE, solver |-> solver, syncs |-> <<>>]

\* P2PSync::init_syncs(gpus): one entry per device, entry 0 for the root,
\* each peer with its own solver pinned to its device and its own copy of
\* the net. Building stops at the first device that cannot be used (fail is
\* the position the engine fails at, 0 for none).
init_syncs(sync, gpus, fail) ==
  LET bad == {i \in 1..Len(gpus) : gpus[i] \notin Devices \/ i = fail}
      n == IF bad = {} THEN Len(gpus)
           ELSE (CHOOSE i \in bad : \A k \in bad : i <= k) - 1
  IN [ok |-> bad = {},
      sync |-> [sync EXCEPT !.syncs =
                  [i \in 1..n |-> [device_id |-> gpus[i], blobs |-> NewBlobs]]]]

\* P2PSync::get_syncs()
get_syncs(sync) == sync.syncs

\* The argument shapes of get_solver_multigpu: the definition alone
\* (nrhs == 1), with a snapshot file (nrhs == 2, char), with a device list
\* (nrhs == 2, double), with both (nrhs == 3).
BuildShapes ==
  { [nrhs |-> 1, has_snapshot |-> FALSE, has_gpus |-> FALSE],
    [nrhs |-> 2, has_snapshot |-> TRUE, has_gpus |-> FALSE],
    [nrhs |-> 2, has_snapshot |-> FALSE, has_gpus |-> TRUE],
    [nrhs |-> 3, has_snapshot |-> TRUE, has_gpus |-> TRUE] }

\* The values the loop over data_ptr[0..ele_num-1] can read. With a device
\* list passed: that list. Without one, ele_num and data_ptr are read
\* uninitialized: the loop reads any list at all, or faults.
DeviceData(shape) ==
  {[passed |-> shape.has_gpus, fault |-> FALSE, list |-> g] : g \in DeviceLists}
  \cup (IF shape.has_gpus THEN {}
        ELSE {[passed |-> FALSE, fault |-> TRUE, list |-> <<>>]})

\* The first position whose device_id fails the check of the loop, 0 if none.
RejectedAt(data, cnt) ==
  LET bad == {i \in 1..Len(data) : data[i] >= cnt}
  IN IF bad = {} THEN 0 ELSE CHOOSE i \in bad : \A k \in bad : i <= k

\* What the record of a get_solver_multigpu call keeps of its inputs: the
\* argument shape, whether the files exist, and of the device list passed
\* its length and whether it holds an identifier below 0 or not below the
\* device count (n = 0 and neither when no list was passed or read). d0 is
\* the first identifier of the list a successful build was given, -1 in
\* every other record.
BuildArg(shape, files_ok, gpus) ==
  [nrhs |-> shape.nrhs, has_gpus |-> shape.has_gpus, files_ok |-> files_ok,
   n |-> Len(gpus), d0 |-> -1,
   below |-> \E i \in 1..Len(gpus) : gpus[i] < 0,
   above |-> \E i \in 1..Len(gpus) : gpus[i] >= DeviceCount]

\* The suffix of the snapshot file name, when one was passed.
Suffixes(shape) ==
  IF shape.has_snapshot THEN {".solverstate", ".caffemodel", ".other"}
  ELSE {"none"}

BuildFrame == UNCHANGED <<pc, init_key, nets_, epoch>>

\* caffe_('get_solver_multigpu', solver_file, [snapshot file], [gpus to use])
get_solver_multigpu ==
  /\ Running
  /\ BuildFrame
  /\ \E shape \in BuildShapes, file_ok \in BOOLEAN :
     LET Fail(arg, err) ==
           /\ last' = Outcome("get_solver_multigpu", arg, err, NoOut)
           /\ UNCHANGED <<solvers_, sync_ptr, leaked, heap, mode, device,
                          handles>>
     IN
     IF ~file_ok THEN Fail(BuildArg(shape, FALSE, <<>>), "MissingFileError")
     ELSE \E snapshot_ok \in (IF shape.has_snapshot THEN BOOLEAN ELSE {TRUE}) :
     IF ~snapshot_ok
     THEN Fail(BuildArg(shape, FALSE, <<>>), "MissingFileError")
     ELSE \E data \in DeviceData(shape) :
       LET arg == BuildArg(shape, TRUE, IF data.passed THEN data.list ELSE <<>>)
       IN
       IF data.fault THEN Fail(arg, "Crash")
       ELSE IF RejectedAt(data.list, DeviceCount) # 0
       THEN Fail(arg, "InvalidDeviceError")
       ELSE LET gpus == data.list IN
       IF Len(gpus) = 0 THEN Fail(arg, "NoDeviceError")
       ELSE IF gpus[1] \notin Devices
       THEN \E e \in EngineFailure : Fail(arg, e)
       ELSE
         \* Caffe::SetDevice(gpus[0]); Caffe::set_mode(Caffe::GPU)
         /\ device' = gpus[1]
         /\ mode' = "GPU"
         \* fail: where the engine fails: -1 in CreateSolver, i > 0 in
         \* init_syncs at device i, 0 nowhere.
         /\ \E suffix \in Suffixes(shape), fail \in (-1)..Len(gpus) :
            IF fail = -1 \/ suffix = ".other"
            THEN /\ \E e \in (IF fail = -1 THEN EngineFailure
                               ELSE {"UsageError"}) :
                      last' = Outcome("get_solver_multigpu", arg, e, NoOut)
                 /\ UNCHANGED <<solvers_, sync_ptr, leaked, heap, handles>>
            ELSE \E a \in FreeAddr :
              LET built == init_syncs(P2PSync(a), gpus, fail)
                  h == ptr_to_handle(Ptr(a, "Solver", 0), "Solver", epoch)
              IN
              /\ heap' = [heap EXCEPT ![a] = NewSolver]
              /\ sync_ptr' = built.sync
              /\ leaked' = IF sync_ptr = NULL THEN leaked
                           ELSE leaked \cup {sync_ptr.solver}
              /\ solvers_' = push_back(solvers_, a)
              /\ IF built.ok
                 THEN /\ Cardinality(handles \cup {h}) <= MaxHandles
                      /\ handles' = handles \cup {h}
                      /\ last' = Outcome("get_solver_multigpu",
                                         [arg EXCEPT !.d0 = IF data.passed
                                                            THEN gpus[1]
                                                            ELSE -1],
                                         "none", <<h>>)
                 ELSE /\ handles' = handles
                      /\ \E e \in EngineFailure :
                           last' = Outcome("get_solver_multigpu", arg, e,
                                           NoOut)

\* ------------------------------------------------- host arrays
\* Net::blob_by_name: the position of the named blob, 0 (a null pointer)
\* when the net has no blob of that name.
blob_by_name(blob_name) ==
  IF \E j \in 1..NumBlobs : BlobNames[j] = blob_name
  THEN CHOOSE j \in 1..NumBlobs : BlobNames[j] = blob_name
  ELSE 0

\* An unsigned int is 32 bits wide, held here as two 16-bit halves.
Half == 65536
UInt32(n) == [hi |-> n \div Half, lo |-> n % Half]

\* x - 1 in unsigned 32-bit arithmetic: 0 - 1 wraps to 2^32 - 1.
UInt32Minus1(x) ==
  IF x.lo > 0 THEN [x EXCEPT !.lo = @ - 1]
  ELSE IF x.hi > 0 THEN [hi |-> x.hi - 1, lo |-> Half - 1]
  ELSE [hi |-> Half - 1, lo |-> Half - 1]

\* blob_index = *(unsigned int*)mxGetPr(prhs[0]); blob_index = blob_index - 1
blob_index_of(host_index) == UInt32Minus1(UInt32(host_index))

\* Whether blobs()[blob_index] is an element of the vector of blobs.
InBlobs(blob_index) == blob_index.hi = 0 /\ blob_index.lo < NumBlobs

\* The count check rejecting only a cell with too few elements.
CountAtLeast(n, sync_vec) == n >= Len(sync_vec)

\* mxGetNumberOfElements(prhs[1]) != sync_vec->size() is the error case.
CountMatches(n, sync_vec) == n = Len(sync_vec)

\* The loop of blob_set_data_multigpu over the peers i = 1 .. size-1
\* (position i+1 of the sequences here). st is [syncs, device, err, at,
\* trace]: the peers' state, the active device, the error that ended the loop,
\* the replica it was raised at, and of every blob written so far its
\* replica and the device active while it was written.
RECURSIVE ScatterPeers(_, _, _, _, _)
ScatterPeers(i, cell, blob_index, initial_device, st) ==
  IF i > Len(st.syncs) THEN st
  ELSE
    LET blob == st.syncs[i].blobs[blob_index.lo + 1]
        elem == cell[i]
    IN
    IF ~mxIsSingle(elem)
    THEN [st EXCEPT !.err = "UsageError", !.at = i - 1]
    ELSE
      \* cudaSetDevice(solver->param().device_id())
      LET r == mx_mat_to_blob(elem, blob, "DATA") IN
      IF r.err # "none"
      THEN [st EXCEPT !.device = st.syncs[i].device_id, !.err = r.err,
                      !.at = i - 1]
      ELSE
        \* cudaSetDevice(initial_device)
        ScatterPeers(i + 1, cell, blob_index, initial_device,
          [st EXCEPT !.syncs[i].blobs[blob_index.lo + 1] = r.blob,
                     !.trace = Append(@, [replica |-> i - 1,
                                          device |-> st.syncs[i].device_id]),
                     !.device = initial_device])

ScatterFrame ==
  UNCHANGED <<pc, init_key, solvers_, nets_, leaked, mode, handles, epoch>>

\* caffe_('blob_set_data_multigpu', BlobIndex, new_data)
blob_set_data_multigpu ==
  /\ Running
  /\ ScatterFrame
  /\ \E host_index \in 0..(NumBlobs + 1) :
     LET Stop(arg, err, at) ==
           /\ last' = Outcome("blob_set_data_multigpu",
                              [arg EXCEPT !.at = at], err, NoOut)
           /\ UNCHANGED <<sync_ptr, heap, device>>
         \* accessed: the position in blobs() the call has indexed, if any
         arg0 == [host_index |-> host_index, n |-> 0, cell |-> <<>>, at |-> 0,
                  dev0 |-> device, trace |-> <<>>, accessed |-> <<>>]
     IN
     IF sync_ptr = NULL THEN Stop(arg0, "NoReplicaSetError", 0)
     ELSE
     LET blob_index == blob_index_of(host_index)
         sync_vec == get_syncs(sync_ptr)
     IN
     \E n \in 0..(MaxGpus + 1) :
     LET arg == [arg0 EXCEPT !.n = n]
         argx == [arg EXCEPT !.accessed = <<blob_index>>]
     IN
     IF ~CountMatches(n, sync_vec) THEN Stop(arg, "CountMismatchError", 0)
     ELSE \E cell \in [1..n -> HostArrays] :
     IF Len(cell) = 0
     THEN \* mxGetCell(prhs[1], 0) of an empty cell: no such element
          \E ub \in {"Crash", "UsageError"} : Stop(arg, ub, 0)
     ELSE IF ~mxIsSingle(cell[1]) THEN Stop(arg, "UsageError", 0)
     ELSE IF ~InBlobs(blob_index)
     THEN \* blobs()[blob_index] past the end of the vector
          \E ub \in {"Crash", "SizeMismatchError", "none"} : Stop(argx, ub, 0)
     ELSE
     LET root == sync_ptr.solver
         r == mx_mat_to_blob(cell[1], heap[root].blobs[blob_index.lo + 1],
                             "DATA")
     IN
     IF r.err # "none" THEN Stop(argx, r.err, 0)
     ELSE
     LET initial_device == device
         st == ScatterPeers(2, cell, blob_index, initial_device,
                 [syncs |-> sync_vec, device |-> device, err |-> "none",
                  at |-> 0,
                  \* the root's blob is written on the device active at entry
                  trace |-> <<[replica |-> 0, device |-> device]>>])
     IN
     /\ heap' = [heap EXCEPT ![root].blobs[blob_index.lo + 1] = r.blob]
     /\ sync_ptr' = [sync_ptr EXCEPT !.syncs = st.syncs]
     /\ device' = st.device
     /\ last' = Outcome("blob_set_data_multigpu",
                        [argx EXCEPT !.at = st.at,
                                    !.trace = st.trace,
                                    !.cell = IF st.err = "none" THEN cell
                                             ELSE <<>>],
                        st.err, NoOut)

GatherFrame ==
  UNCHANGED <<pc, init_key, solvers_, nets_, sync_ptr, leaked, heap, mode, device,
              handles, epoch>>

\* Every replica read from the root's solver.
RootBlobs(i) == heap[sync_ptr.solver].blobs

\* The blobs of replica i (position i+1): the root's solver for i = 0, the
\* peer's otherwise.
ReplicaBlobs(i) ==
  IF i = 1 THEN heap[sync_ptr.solver].blobs ELSE sync_ptr.syncs[i].blobs

\* caffe_('blob_get_data_byname_multigpu', blob_name)
blob_get_data_byname_multigpu ==
  /\ Running
  /\ GatherFrame
  /\ \E blob_name \in Range(BlobNames) \cup {"nosuch"} :
     LET arg == [blob_name |-> blob_name, dev0 |-> device, trace |-> <<>>]
         Return(err, out) ==
           last' = Outcome("blob_get_data_byname_multigpu", arg, err, out)
     IN
     IF solvers_ = <<>> THEN Return("none", <<-1>>)
     ELSE IF sync_ptr = NULL THEN Return("NoReplicaSetError", NoOut)
     ELSE
     LET sync_vec == get_syncs(sync_ptr)
         j == blob_by_name(blob_name)
     IN
     IF j = 0 /\ Len(sync_vec) > 0
     THEN \* blob_to_mx_mat(NULL, DATA): blob->num_axes() of a null pointer
          \E ub \in {"Crash", "garbage"} :
            IF ub = "Crash" THEN Return("Crash", NoOut)
            ELSE Return("none", <<"garbage">>)
     ELSE
       \* every replica's blob is read on the device active at entry: the
       \* loop holds no cudaSetDevice
       last' = Outcome("blob_get_data_byname_multigpu",
                 [arg EXCEPT !.trace = [i \in 1..Len(sync_vec) |->
                                          [replica |-> i - 1,
                                           device |-> device]]],
                 "none",
                 <<[i \in 1..Len(sync_vec) |->
                     blob_to_mx_mat(ReplicaBlobs(i)[j], "DATA")]>>)

\* Net::ForwardPrefilled(): the forward pass over the blobs already filled in;
\* the net of the model copies the first element of "data" into "prob".
ForwardPrefilled(blobs) == [blobs EXCEPT ![2].data = <<blobs[1].data[1]>>]

\* The loop of solver_teststep_multigpu over i = 0 .. size-1 (position i+1
\* here), the forward pass failing at position fail (0 for none). st is
\* [root, syncs, device, at]: the root's blobs, the peers' state, the active
\* device and the replica the loop stopped at.
RECURSIVE TestSteps(_, _, _, _)
TestSteps(i, fail, initial_device, st) ==
  IF i > Len(st.syncs) THEN st
  ELSE
    \* cudaSetDevice(solver->param().device_id())
    IF i = fail
    THEN [st EXCEPT !.device = st.syncs[i].device_id, !.at = i - 1]
    ELSE
      \* net->ForwardPrefilled(); cudaSetDevice(initial_device)
      TestSteps(i + 1, fail, initial_device,
        IF i = 1
        THEN [st EXCEPT !.root = ForwardPrefilled(@),
                        !.device = initial_device]
        ELSE [st EXCEPT !.syncs[i].blobs = ForwardPrefilled(@),
                        !.device = initial_device])

TestFrame ==
  UNCHANGED <<pc, init_key, solvers_, nets_, leaked, mode, handles, epoch>>

\* caffe_('solver_teststep_multigpu')
solver_teststep_multigpu ==
  /\ Running
  /\ TestFrame
  /\ LET arg == [dev0 |-> device, at |-> 0] IN
     IF sync_ptr = NULL
     THEN \* sync_ptr->get_syncs() through a null pointer
          /\ \E ub \in {"Crash", "none"} :
               last' = Outcome("solver_teststep_multigpu", arg, ub, NoOut)
          /\ UNCHANGED <<sync_ptr, heap, device>>
     ELSE
     LET sync_vec == get_syncs(sync_ptr)
         root == sync_ptr.solver
         initial_device == device
     IN
     \E fail \in 0..Len(sync_vec) :
     \E err \in IF fail = 0 THEN {"none"} ELSE EngineFailure :
     LET st == TestSteps(1, fail, initial_device,
                 [root |-> heap[root].blobs, syncs |-> sync_vec,
                  device |-> device, at |-> 0])
     IN
     /\ heap' = [heap EXCEPT ![root].blobs = st.root]
     /\ sync_ptr' = [sync_ptr EXCEPT !.syncs = st.syncs]
     /\ device' = st.device
     /\ last' = Outcome("solver_teststep_multigpu",
                        [arg EXCEPT !.at = st.at], err, NoOut)

\* ------------------------------------------------- command router
\* handlers[]: the registered commands in the order of the table; each
\* entry's function is the handler of the entry's own name. The table ends
\* with the entry { "END", NULL }.
HandlerNames ==
  << "get_solver", "solver_get_attr", "solver_get_iter", "solver_restore",
     "solver_solve", "solver_step", "solver_snapshot",
     "solver_teststep_multigpu", "get_solver_multigpu", "get_net",
     "net_get_attr", "net_forward", "net_backward", "net_copy_from",
     "net_reshape", "net_save", "layer_get_attr", "layer_get_type",
     "blob_get_shape", "blob_reshape", "blob_get_data",
     "blob_get_data_byname_multigpu", "blob_set_data",
     "blob_set_data_multigpu", "blob_get_diff", "blob_set_diff",
     "set_mode_cpu", "set_mode_gpu", "set_device", "get_init_key", "reset",
     "read_mean", "write_mean", "init_log" >>

handlers ==
  [i \in 1..(Len(HandlerNames) + 1) |->
     IF i <= Len(HandlerNames)
     THEN [cmd |-> HandlerNames[i], func |-> HandlerNames[i]]
     ELSE [cmd |-> "END", func |-> "NULL"]]

\* The loop comparing every entry of the table, the last one included.
RECURSIVE DispatchToEnd(_, _)
DispatchToEnd(i, cmd) ==
  IF i > Len(handlers) THEN 0
  ELSE IF handlers[i].cmd = cmd THEN i
  ELSE DispatchToEnd(i + 1, cmd)

\* mexFunction's loop from entry i: the position of the first entry named
\* cmd before the entry whose function is NULL, 0 when there is none.
RECURSIVE Dispatch(_, _)
Dispatch(i, cmd) ==
  IF handlers[i].func = "NULL" THEN 0
  ELSE IF handlers[i].cmd = cmd THEN i
  ELSE Dispatch(i + 1, cmd)

\* The calls of the router's model: [cmd, args], args being what follows the
\* name. The names are those of five registered commands, the terminator's,
\* a registered name in other case, the empty name and an unregistered one;
\* set_device is called with its device_id, the other handlers draw their
\* inputs themselves.
Calls ==
  {[cmd |-> c, args |-> <<>>] :
     c \in {"get_net", "net_get_attr", "get_init_key", "reset", "END",
            "Reset", "", "nosuch"}}
  \cup {[cmd |-> c, args |-> <<d>>] :
          c \in {"set_device", "nosuch"}, d \in (-1)..DeviceCount}

\* handlers[i].func(nlhs, plhs, nrhs - 1, prhs + 1)
Invoke(func, args) ==
  CASE func = "get_net" -> get_net
    [] func = "net_get_attr" -> net_get_attr
    [] func = "get_init_key" -> get_init_key
    [] func = "reset" -> reset
    [] func = "set_device" -> set_device /\ last'.arg = args[1]
    [] func = "NULL" ->
         \* a call through a null function pointer
         /\ Running
         /\ last' = Outcome("NULL", args, "Crash", NoOut)
         /\ UNCHANGED <<pc, init_key, solvers_, nets_, sync_ptr, leaked, heap,
                        mode, device, handles, epoch>>

\* mexFunction for one call: dispatch to the handler, or the error of an
\* unknown command.
mexFunctionCall(call) ==
  LET i == Dispatch(1, call.cmd) IN
  IF i # 0 THEN Invoke(handlers[i].func, call.args)
  ELSE /\ Running
       /\ last' = Outcome(call.cmd, call.args, "UnknownCommandError", NoOut)
       /\ UNCHANGED <<pc, init_key, solvers_, nets_, sync_ptr, leaked, heap,
                      mode, device, handles, epoch>>

\* caffe_(api_command, arg1, arg2, ...)
mexFunction ==
  \E call \in Calls : mexFunctionCall(call)

\* ------------------------------------------------- specification
Next ==
  \/ get_solver
  \/ get_net
  \/ solver_get_attr
  \/ net_get_attr
  \/ layer_get_type
  \/ blob_get_shape
  \/ set_mode_cpu
  \/ set_mode_gpu
  \/ set_device
  \/ reset
  \/ get_solver_multigpu
  \/ blob_set_data_multigpu
  \/ blob_get_data_byname_multigpu
  \/ solver_teststep_multigpu
  \/ get_init_key
  \/ blob_get_data
  \/ blob_set_data
  \/ blob_get_diff
  \/ blob_set_diff

Spec == Init /\ [][Next]_vars

\* The handle registry and the object store alone.
NextStore ==
  \/ get_solver
  \/ get_net
  \/ solver_get_attr
  \/ net_get_attr
  \/ layer_get_type
  \/ blob_get_shape
  \/ set_mode_cpu
  \/ set_mode_gpu
  \/ reset

SpecStore == Init /\ [][NextStore]_vars

\* The replica set alone, built once.
NextSync ==
  \/ sync_ptr = NULL /\ get_solver_multigpu
  \/ solver_teststep_multigpu
  \/ blob_set_data_multigpu
  \/ blob_get_data_byname_multigpu
  \/ set_device

SpecSync == Init /\ [][NextSync]_vars

\* The three creating commands, the commands resolving the handles they
\* issue, and reset.
NextCreate ==
  \/ get_solver
  \/ get_net
  \/ solvers_ = <<>> /\ nets_ = <<>> /\ get_solver_multigpu
  \/ solver_get_attr
  \/ net_get_attr
  \/ reset

SpecCreate == Init /\ [][NextCreate]_vars

\* The life of one replica set: built once, then reset step by step.
NextLife ==
  \/ sync_ptr = NULL /\ get_solver_multigpu
  \/ set_device
  \/ reset_clear
  \/ reset_delete

SpecLife == Init /\ [][NextLife]_vars

\* Replica sets built one after another.
NextRebuild ==
  \/ get_solver_multigpu
  \/ set_device

SpecRebuild == Init /\ [][NextRebuild]_vars

\* The store with the key readable by the host.
NextKey ==
  \/ get_net
  \/ net_get_attr
  \/ blob_get_shape
  \/ layer_get_type
  \/ reset
  \/ get_init_key

SpecKey == Init /\ [][NextKey]_vars

\* A net and the planes of its blobs.
NextBlob ==
  \/ get_net
  \/ net_get_attr
  \/ blob_get_data
  \/ blob_set_data
  \/ blob_get_diff
  \/ blob_set_diff
  \/ set_mode_cpu
  \/ set_mode_gpu

SpecBlob == Init /\ [][NextBlob]_vars

\* The store, and the replica set built over what the store holds.
NextAppend ==
  \/ get_solver
  \/ get_net
  \/ sync_ptr = NULL /\ get_solver_multigpu
  \/ reset

SpecAppend == Init /\ [][NextAppend]_vars

\* The commands as the host calls them, through the router.
NextRoute ==
  \/ mexFunction

SpecRoute == Init /\ [][NextRoute]_vars

\* ------------------------------------------------- properties
\* The commands that resolve a handle.
HandleCmds ==
  {"solver_get_attr", "net_get_attr", "layer_get_type", "blob_get_shape"}

Scatter == "blob_set_data_multigpu"
Gather == "blob_get_data_byname_multigpu"
Build == "get_solver_multigpu"

\* C1: a handle issued before a reset never resolves after it: every
\* command given such a handle fails with StaleHandleError.
C1_StaleAfterReset ==
  (last.cmd \in HandleCmds /\ last.arg.h.issued < epoch)
    => last.err = "StaleHandleError"

\* C2: a handle issued since the last reset, given to a command of the type
\* it was issued under, resolves without error to the address it was issued
\* for, and the object at that address is the live object it was issued for.
C2_ResolveIssued ==
  (last.cmd \in HandleCmds /\ last.arg.h.issued = epoch
     /\ last.arg.h.T = last.arg.T)
    => /\ last.err = "none"
       /\ last.arg.ptr = last.arg.h.ptr
       /\ PointsTo(last.arg.T, last.arg.ptr)
       /\ heap[last.arg.ptr.base].born = last.arg.h.obj

\* C2 happens: after a reset, the handle of the solver a replica set was
\* built around resolves.
C2_Witness ==
  /\ last.cmd = "solver_get_attr"
  /\ last.err = "none"
  /\ epoch > 0
  /\ last.arg.h.issued = epoch
  /\ sync_ptr # NULL
  /\ sync_ptr.solver = last.arg.ptr.base

\* C3: every issued handle whose key equals the current key points to a
\* live object of its type, the one it was issued for.
C3_MatchingKeyAlive ==
  \A h \in handles :
    h.init_key = init_key
      => PointsTo(h.T, h.ptr) /\ heap[h.ptr.base].born = h.obj

\* C4: a command given a handle of the current key that was issued under
\* another type than the command resolves fails with TypeMismatchError.
C4_TypeMismatch ==
  (last.cmd \in HandleCmds /\ last.arg.h.init_key = init_key
     /\ last.arg.h.T # last.arg.T)
    => last.err = "TypeMismatchError"

\* C5: after a scatter or gather call, however it ended, the active device
\* is the device that was active before the call.
C5_DeviceRestored ==
  last.cmd \in {Scatter, Gather} => device = last.arg.dev0

\* C6: with a replica set present, scatter given a number of arrays other
\* than the number of replicas fails with CountMismatchError.
C6_CountMismatch ==
  (last.cmd = Scatter /\ sync_ptr # NULL
     /\ last.arg.n # Len(get_syncs(sync_ptr)))
    => last.err = "CountMismatchError"

\* C6 happens: a set of two replicas given three arrays.
C6_Witness ==
  /\ last.cmd = Scatter
  /\ sync_ptr # NULL
  /\ Len(get_syncs(sync_ptr)) = 2
  /\ last.arg.n = 3
  /\ last.err = "CountMismatchError"

\* A successful scatter to a tensor of the model followed immediately by a
\* gather of the same tensor.
ReadBack ==
  /\ last.cmd = Scatter
  /\ last.err = "none"
  /\ InBlobs(blob_index_of(last.arg.host_index))
  /\ last'.cmd = Gather
  /\ last'.arg.blob_name = BlobNames[last.arg.host_index]

\* C7 as stated: the gather returns exactly the arrays the scatter was
\* given, dimensions included.
C7_ReadBackSame ==
  [][ReadBack => last'.err = "none" /\ last'.out = <<last.arg.cell>>]_vars

\* C7: the gather returns one single array per replica, in replica order,
\* whose elements are those of the array written to that replica and whose
\* dimensions are the reverse of the tensor's native shape.
C7_ReadBackElements ==
  [][ReadBack =>
       /\ last'.err = "none"
       /\ Len(last'.out) = 1
       /\ Len(last'.out[1]) = Len(last.arg.cell)
       /\ \A i \in 1..Len(last.arg.cell) :
            /\ last'.out[1][i].data = last.arg.cell[i].data
            /\ last'.out[1][i].class = "single"
            /\ last'.out[1][i].dims =
                 IF BlobShape(last.arg.host_index) = <<>> THEN <<1, 1>>
                 ELSE Reverse(BlobShape(last.arg.host_index))]_vars

\* C7 happens: a gather over two replicas returns two different arrays, the
\* first other than the tensor's initial content, in dimensions other than
\* those of the row array written.
C7_Witness ==
  /\ last.cmd = Gather
  /\ last.err = "none"
  /\ solvers_ # <<>>
  /\ sync_ptr # NULL
  /\ last.arg.blob_name = BlobNames[1]
  /\ Len(last.out[1]) = 2
  /\ last.out[1][1].data = <<0, 1>>
  /\ last.out[1][2].data = <<1, 0>>
  /\ last.out[1][1].dims = <<2, 1>>

\* C8: a build whose files exist and whose device list is empty or absent
\* fails with NoDeviceError.
C8_NoDevice ==
  (last.cmd = Build /\ last.arg.files_ok /\ last.arg.n = 0)
    => last.err = "NoDeviceError"

\* C9: a build whose files exist and whose device list holds an identifier
\* below 0 or not below the device count fails with InvalidDeviceError.
C9_InvalidDevice ==
  (last.cmd = Build /\ last.arg.files_ok
     /\ (last.arg.below \/ last.arg.above))
    => last.err = "InvalidDeviceError"

\* C10: with a replica set of at least one replica, a gather of a name no
\* tensor of the model has fails with UnknownTensorNameError and returns
\* nothing.
C10_UnknownName ==
  (last.cmd = Gather /\ solvers_ # <<>> /\ sync_ptr # NULL
     /\ Len(get_syncs(sync_ptr)) > 0
     /\ blob_by_name(last.arg.blob_name) = 0)
    => last.err = "UnknownTensorNameError" /\ last.out = NoOut

\* C11: the replica set is released before the store's collections are
\* cleared: while a replica set exists, the store still holds its root
\* solver.
C11_ReleasedBeforeCleared == sync_ptr # NULL => solvers_ # <<>>

\* C12: no replica set replaced by a later build remains unreleased.
C12_NoUnreleasedSet == leaked = {}

TestStep == "solver_teststep_multigpu"
MultiDeviceCmds == {Scatter, Gather, TestStep}

\* C13: a multi-device command invoked while no replica set is built ends
\* in an error reported to the host: the process survives it and nothing is
\* returned.
C13_UnbuiltIsError ==
  (last.cmd \in MultiDeviceCmds /\ sync_ptr = NULL)
    => (last.err \notin {"none", "Crash"} /\ last.out = NoOut)

C14_ResolvedWasIssued ==
  (last.cmd \in HandleCmds
     /\ handle_to_ptr(last.arg.T, last.arg.h).err = "none")
    => last.arg.h \in handles

BlobSetCmds == {"blob_set_data", "blob_set_diff"}
BlobGetCmds == {"blob_get_data", "blob_get_diff"}

\* The blob a blob command resolved its handle to.
BlobOf(rec) == heap[rec.arg.ptr.base].blobs[rec.arg.ptr.idx]

\* A blob_set_data or blob_set_diff call that reaches mx_mat_to_blob: the
\* array is single and the handle resolves to a live blob.
ReachesCopy(rec) ==
  /\ rec.cmd \in BlobSetCmds
  /\ mxIsSingle(rec.arg.mx_mat)
  /\ handle_to_ptr("Blob", rec.arg.h).err = "none"
  /\ PointsTo("Blob", rec.arg.ptr)

\* C15: mx_mat_to_blob given a host array whose element count is not the
\* blob's fails with SizeMismatchError and leaves both planes of the blob,
\* and everything else on the heap, as they were.
C15_MismatchLeavesBlob ==
  [][(ReachesCopy(last')
        /\ count(BlobOf(last')) # mxGetNumberOfElements(last'.arg.mx_mat))
       => (last'.err = "SizeMismatchError" /\ heap' = heap)]_vars

\* C15 happens: an array of one element is refused by the DIFF plane of a
\* blob of two elements whose DATA plane was written before.
C15_Witness ==
  /\ last.cmd = "blob_set_diff"
  /\ last.err = "SizeMismatchError"
  /\ last.arg.mx_mat.data = <<1>>
  /\ last.arg.ptr.idx = 1
  /\ BlobOf(last).data = <<1, 0>>
  /\ BlobOf(last).diff = <<0, 0>>

\* A successful write of a plane followed immediately by a read of the same
\* plane through the same handle.
RoundTrip ==
  /\ ReachesCopy(last)
  /\ last.err = "none"
  /\ last'.cmd \in BlobGetCmds
  /\ last'.arg.h = last.arg.h
  /\ last'.arg.which = last.arg.which

\* C16 as stated: the array read back holds the elements written and its
\* dimensions are the reverse of the blob's native shape, for every blob.
C16_RoundTripReversed ==
  [][RoundTrip =>
       /\ last'.err = "none"
       /\ last'.out[1].data = last.arg.mx_mat.data
       /\ last'.out[1].dims = Reverse(BlobOf(last).shape)]_vars

\* C16: the array read back is single and holds, element for element, the
\* array written; its dimensions are the reverse of the blob's native shape
\* when the blob has axes, and it has one element when the blob has none.
C16_RoundTripAxes ==
  [][RoundTrip =>
       /\ last'.err = "none"
       /\ last'.out[1].class = "single"
       /\ last'.out[1].data = last.arg.mx_mat.data
       /\ (BlobOf(last).shape # <<>>
             => last'.out[1].dims = Reverse(BlobOf(last).shape))
       /\ (BlobOf(last).shape = <<>>
             => mxGetNumberOfElements(last'.out[1]) = 1)]_vars

\* C16 happens: the DIFF plane of the blob of shape (1,2), written with a
\* row array, is read back as a column while the DATA plane holds other
\* values.
C16_Witness ==
  /\ last.cmd = "blob_get_diff"
  /\ last.err = "none"
  /\ PointsTo("Blob", last.arg.ptr)
  /\ last.arg.ptr.idx = 1
  /\ last.out[1].data = <<0, 1>>
  /\ last.out[1].dims = <<2, 1>>
  /\ BlobOf(last).data = <<1, 0>>

\* C17: a blob of no axes is returned as an array of one dimension of
\* extent 1 holding exactly one element, never as an empty array.
C17_ScalarOneElement ==
  (last.cmd \in BlobGetCmds /\ last.err = "none"
     /\ PointsTo("Blob", last.arg.ptr) /\ BlobOf(last).shape = <<>>)
    => /\ mat_dims(BlobOf(last)) = <<1>>
       /\ mxGetNumberOfElements(last.out[1]) = 1
       /\ Len(last.out[1].data) = 1

\* C17 happens: the blob of no axes, written with 1, is read back.
C17_Witness ==
  /\ last.cmd = "blob_get_data"
  /\ last.err = "none"
  /\ PointsTo("Blob", last.arg.ptr)
  /\ BlobOf(last).shape = <<>>
  /\ last.out[1].data = <<1>>

\* C18: a blob_set_data_multigpu call that fails at a replica after the
\* root leaves the blobs of every replica as they were.
C18_FailedScatterWritesNothing ==
  [][(last'.cmd = Scatter /\ last'.err \notin {"none", "Crash"}
        /\ last'.arg.at > 0)
       => (heap' = heap /\ sync_ptr' = sync_ptr)]_vars

\* A scatter or gather of a tensor of the model that ran to its end.
Completed ==
  /\ last.cmd \in {Scatter, Gather}
  /\ last.err = "none"
  /\ sync_ptr # NULL
  /\ solvers_ # <<>>
  /\ (last.cmd = Scatter => InBlobs(blob_index_of(last.arg.host_index)))
  /\ (last.cmd = Gather => blob_by_name(last.arg.blob_name) # 0)

\* C20: a scatter or gather touches the replicas in index order from the
\* root, each one while that replica's own device is the active device.
C20_OwnDeviceInOrder ==
  Completed =>
    /\ Len(last.arg.trace) = Len(get_syncs(sync_ptr))
    /\ \A k \in 1..Len(last.arg.trace) :
         /\ last.arg.trace[k].replica = k - 1
         /\ last.arg.trace[k].device = get_syncs(sync_ptr)[k].device_id

\* C21: after a reset the collection of solvers and the collection of nets
\* are empty and no replica set is active; the same command that empties
\* them draws the key anew and starts the next generation of handles.
C21_ResetClearsAll ==
  [][(last'.cmd = "reset" /\ epoch' # epoch)
       => /\ last'.err = "none"
          /\ solvers_' = <<>>
          /\ nets_' = <<>>
          /\ sync_ptr' = NULL
          /\ init_key' \in caffe_rng_rand
          /\ epoch' = epoch + 1
          /\ \A a \in Addr : a \notin KeptAlive => heap'[a] = NoObj]_vars

\* C21 happens: a reset has emptied a store that held a built replica set's
\* solver and a stand-alone net, whose handles the host still holds.
C21_Witness ==
  /\ last.cmd = "reset"
  /\ epoch = 1
  /\ solvers_ = <<>>
  /\ nets_ = <<>>
  /\ sync_ptr = NULL
  /\ \E h \in handles : h.T = "Solver" /\ h.issued = 0
  /\ \E h \in handles : h.T = "Net" /\ h.ptr.part = "Net" /\ h.issued = 0
                         /\ \A g \in handles : g.T = "Solver"
                                                  => g.ptr.base # h.ptr.base

\* s is the beginning of t: t holds the entries of s, in their places.
IsPrefix(s, t) ==
  /\ Len(s) <= Len(t)
  /\ \A i \in 1..Len(s) : s[i] = t[i]

\* C22: between resets the collections only grow at their end: a command
\* other than reset keeps every entry of both collections in its place, and
\* a successful get_solver, get_net or get_solver_multigpu adds exactly one
\* entry behind those of its collection and none to the other.
C22_AppendOnly ==
  [][(epoch' = epoch /\ pc = "idle" /\ pc' = "idle")
       => /\ IsPrefix(solvers_, solvers_')
          /\ IsPrefix(nets_, nets_')
          /\ (last'.cmd \in {"get_solver", Build} /\ last'.err = "none"
                => /\ Len(solvers_') = Len(solvers_) + 1
                   /\ nets_' = nets_)
          /\ (last'.cmd = "get_net" /\ last'.err = "none"
                => /\ Len(nets_') = Len(nets_) + 1
                   /\ solvers_' = solvers_)]_vars

\* C22 happens: a successful build has put its solver behind the solver a
\* get_solver had stored before.
C22_Witness ==
  /\ last.cmd = Build
  /\ last.err = "none"
  /\ Len(solvers_) = 2
  /\ sync_ptr # NULL
  /\ sync_ptr.solver = solvers_[2]
  /\ leaked = {}

\* C23: after a successful build over a device list the mode is GPU, the
\* active device and the root solver's device are the first device of the
\* list, a replica set of one replica per listed device exists, and its
\* root solver is the last entry of solvers_ and the live object the handle
\* returned resolves to.
C23_BuildEffects ==
  (last.cmd = Build /\ last.err = "none" /\ last.arg.has_gpus /\ pc = "idle")
    => /\ mode = "GPU"
       /\ last.arg.d0 \in Devices
       /\ device = last.arg.d0
       /\ sync_ptr # NULL
       /\ Len(get_syncs(sync_ptr)) = last.arg.n
       /\ get_syncs(sync_ptr)[1].device_id = last.arg.d0
       /\ solvers_ # <<>>
       /\ solvers_[Len(solvers_)] = sync_ptr.solver
       /\ Len(last.out) = 1
       /\ last.out[1] \in handles
       /\ LET r == handle_to_ptr("Solver", last.out[1]) IN
          /\ r.err = "none"
          /\ r.ptr = Ptr(sync_ptr.solver, "Solver", 0)
          /\ PointsTo("Solver", r.ptr)

\* C23 happens: a build over the devices 1 and 0, called in CPU mode on
\* device 0, has succeeded.
C23_Witness ==
  /\ last.cmd = Build
  /\ last.err = "none"
  /\ last.arg.has_gpus
  /\ last.arg.n = 2
  /\ last.arg.d0 = 1
  /\ device = 1
  /\ sync_ptr # NULL
  /\ get_syncs(sync_ptr)[2].device_id = 0

\* The names the table registers a handler under.
Registered == Range(HandlerNames)

\* C24: a call whose name is registered runs the handler of exactly that
\* name, with the arguments that follow the name; a call whose name is not
\* registered, the terminator's included, runs no handler, changes nothing
\* of the session and ends in UnknownCommandError.
C24_Routes ==
  [][\A call \in Calls :
       mexFunctionCall(call) =>
         /\ last'.cmd = call.cmd
         /\ (call.cmd \in Registered
               => /\ last'.err # "UnknownCommandError"
                  /\ (call.cmd = "set_device" => last'.arg = call.args[1]))
         /\ (call.cmd \notin Registered
               => /\ last'.err = "UnknownCommandError"
                  /\ last'.out = NoOut
                  /\ UNCHANGED <<pc, init_key, solvers_, nets_, sync_ptr,
                                 leaked, heap, mode, device, handles,
                                 epoch>>)]_vars

\* C24 happens: with a net stored, a handle issued and the device changed,
\* the terminator's name was called and refused.
C24_Witness ==
  /\ last.cmd = "END"
  /\ last.err = "UnknownCommandError"
  /\ nets_ # <<>>
  /\ Cardinality(handles) > 1
  /\ device = 1

\* C25: a build that ends in an error the process survives leaves both
\* collections and the replica set as they were before the call.
C25_FailedBuildChangesNothing ==
  [][(last'.cmd = Build /\ last'.err \notin {"none", "Crash"}
        /\ pc = "idle" /\ pc' = "idle")
       => /\ solvers_' = solvers_
          /\ nets_' = nets_
          /\ sync_ptr' = sync_ptr]_vars

\* C26: the position blob_set_data_multigpu indexes blobs() at is the host
\* index minus one and lies within 0 .. number of blobs - 1.
C26_IndexInRange ==
  (last.cmd = Scatter /\ last.arg.accessed # <<>>)
    => /\ last.arg.accessed[1] = [hi |-> 0, lo |-> last.arg.host_index - 1]
       /\ InBlobs(last.arg.accessed[1])

====
